---- MODULE Spec2Model ----
(***************************************************************************)
(* Model of notebooks/sentinel-6/Access_Sentinel6_NRT.ipynb: one pass of   *)
(* the notebook ("a run") logs in to Earthdata Login, reads the watermark  *)
(* file .update, queries CMR                                               *)
(* for granules created since the watermark, downloads them and, on        *)
(* success, overwrites .update with the time captured after the query.     *)
(* A run is the notebook executed top to bottom (papermill): an exception  *)
(* raised by a cell ends the run.                                          *)
(***************************************************************************)
EXTENDS Integers, Sequences, FiniteSets, TLC

\* ------------------------------------------------------------------ bounds
MaxRuns == 2        \* runs started in one behaviour
MaxTicks == 2       \* clock ticks elapsing in one behaviour
MaxItems == 2       \* granule records in one query response
TicksPerSec == 2    \* clock resolution: utcnow() is finer than one second

\* --------------------------------------------------------- configuration
mins == 20

VARIABLES
    now,        \* the UTC clock, in ticks since 2020-09-02T00:00:00
    dirExists,  \* isdir(data)
    update,     \* the file data/.update: [exists, text]
    files,      \* the granule files in data/: name -> absent|partial|complete
    procs,      \* the notebook processes of this behaviour
    catalog,    \* the responses CMR may give to a query of this behaviour
    runs,       \* number of runs started so far
    pc,         \* per process: the step the run is at
    opener,     \* per process: the opener installed by install_opener
    timestamp,  \* per process: the notebook variable `timestamp`
    params,     \* per process: the notebook variable `params`
    url,        \* per process: the notebook variable `url` (its query part)
    results,    \* per process: the notebook variable `results`
    downloads,  \* per process: the notebook variable `downloads`
    idx,        \* per process: position of the download loop in `downloads`
    pre,        \* history: the data directory ([dir, update]) when the run started
    startAt,    \* history: clock reading of the run's default timestamp
    respAt,     \* history: clock when the response was read (-1: none)
    cand,       \* history: the timestamp captured after the query
    failed,     \* history: the step of this run that raised ("none": none)
    fromFile,   \* history: the run took `timestamp` from .update
    fetched,    \* history: URLs fetched successfully in this run, in order
    login,      \* history: what the login of this run found and did
    tried,      \* history: URLs passed to urlretrieve in this run, in order
    queries,    \* history: the queries sent to CMR in this run, in order
    last        \* history: how the previous run ended

vars == <<now, dirExists, update, files, procs, runs, pc, timestamp, params,
          url, results, downloads, idx, pre, startAt, respAt, cand,
          failed, fromFile, fetched, last, opener, login, tried, queries,
          catalog>>

runVars == <<pc, opener, timestamp, params, url, results, downloads, idx>>
histVars == <<pre, startAt, respAt, cand, failed, fromFile, fetched, login,
              tried, queries>>

\* ------------------------------------------------------------ timestamps
Digits == <<"0", "1", "2", "3", "4", "5", "6", "7", "8", "9">>

TwoDigits(n) == <<Digits[(n \div 10) + 1], Digits[(n % 10) + 1]>>

\* The day of the modelled clock: 2020-09-02.
DatePart == <<"2", "0", "2", "0", "-", "0", "9", "-", "0", "2">>

\* datetime.strftime("%Y-%m-%dT%H:%M:%SZ") of the instant t (in ticks): the
\* fraction of a second is dropped.
Strftime(t) ==
    LET s == t \div TicksPerSec
    IN  DatePart \o <<"T">> \o TwoDigits((s \div 3600) % 24) \o <<":">>
          \o TwoDigits((s \div 60) % 60) \o <<":">> \o TwoDigits(s % 60)
          \o <<"Z">>

\* timedelta(minutes=m), in ticks.
Timedelta(m) == m * 60 * TicksPerSec

\* The clock reading itself, the window forgotten.
DefaultTimestampNoLookback(t) == Strftime(t)

\* Cell 9: (datetime.utcnow()-timedelta(minutes=mins)).strftime(...).
DefaultTimestamp(t) == Strftime(t - Timedelta(mins))

\* Clock at the start of the behaviour: 2020-09-02T16:57:10 (cell 9 output).
Epoch == ((16 * 60 + 57) * 60 + 10) * TicksPerSec

\* The timestamp the notebook's recorded run found in .update (cell 11
\* output): 2020-09-02T16:46:32Z.
PriorStamp == Strftime(((16 * 60 + 46) * 60 + 32) * TicksPerSec)

\* Reading a text back as a timestamp of the modelled day.
IsDigit(c) == \E d \in 1..10 : Digits[d] = c

DigitValue(c) == (CHOOSE d \in 1..10 : Digits[d] = c) - 1

IsStamp(text) ==
    /\ Len(text) = 20
    /\ SubSeq(text, 1, 10) = DatePart
    /\ text[11] = "T" /\ text[14] = ":" /\ text[17] = ":" /\ text[20] = "Z"
    /\ \A i \in {12, 13, 15, 16, 18, 19} : IsDigit(text[i])

\* Seconds since midnight of a timestamp.
SecondsOf(text) ==
    (DigitValue(text[12]) * 10 + DigitValue(text[13])) * 3600
    + (DigitValue(text[15]) * 10 + DigitValue(text[16])) * 60
    + DigitValue(text[18]) * 10 + DigitValue(text[19])

\* --------------------------------------------------------------- file I/O
NoFile == [exists |-> FALSE, text |-> <<>>]

File(text) == [exists |-> TRUE, text |-> text]

\* f.read() of a file opened in text mode: universal newlines, "\r\n" and
\* "\r" are read as "\n"; nothing is stripped.
RECURSIVE ReadText(_)
ReadText(bytes) ==
    IF bytes = <<>> THEN <<>>
    ELSE IF bytes[1] = "\r"
         THEN IF Len(bytes) >= 2 /\ bytes[2] = "\n"
              THEN <<"\n">> \o ReadText(SubSeq(bytes, 3, Len(bytes)))
              ELSE <<"\n">> \o ReadText(Tail(bytes))
         ELSE <<bytes[1]>> \o ReadText(Tail(bytes))

\* The string and a line terminator, as print(s, file=f) writes it.
WriteTextLine(s) == s \o <<"\n">>

\* f.write(s) of a file opened in text mode: the string as it is, no line
\* terminator is added.
WriteText(s) == s

\* ------------------------------------------------------- catalog records
GetData == "GET DATA"

Link(type, u) == [Type |-> type, URL |-> u]

Record(links) == [umm |-> [RelatedUrls |-> links]]

\* A URL is the sequence of its path segments, host first.
UrlA == <<"archive", "p", "a.nc">>
UrlB == <<"archive", "p", "b.nc">>
UrlC == <<"mirror", "q", "c.nc">>
UrlDoc == <<"archive", "doc.html">>

\* Granule records a response may carry: one data link; an information link
\* followed by two data links; no data link at all.
Records ==
    { Record(<<Link(GetData, UrlA)>>),
      Record(<<Link("VIEW RELATED INFORMATION", UrlDoc),
               Link(GetData, UrlB), Link(GetData, UrlC)>>),
      Record(<<Link("VIEW RELATED INFORMATION", UrlDoc)>>) }

\* The item lists of a response: up to MaxItems granules, each listed once.
ResultSets ==
    { rs \in UNION { [1..n -> Records] : n \in 0..MaxItems } :
        \A i, j \in DOMAIN rs : rs[i] = rs[j] => i = j }

\* 'page_size' of cell 13, to the scale of the model: a response carries at
\* most this many records.
page_size == MaxItems

\* 'hits' of a response, the number of granules that matched: the number of
\* records listed, or more than that when the page is full.
HitCounts(rs) ==
    IF Len(rs) = page_size THEN {Len(rs), Len(rs) + 1} ELSE {Len(rs)}

\* loads(f.read().decode()): the first page of the search.
Responses ==
    UNION { { [hits |-> h, items |-> rs] : h \in HitCounts(rs) } :
            rs \in ResultSets }

NoResults == [hits |-> 0, items |-> <<>>]

\* os.path.basename(f): the last path segment.
Basename(u) == u[Len(u)]

FileNames == { Basename(u) : u \in {UrlA, UrlB, UrlC, UrlDoc} }

\* urlencode(params), the created_at pair: ":" and the line feed are
\* percent-encoded, character by character.
Urlencode(s) ==
    [i \in 1..Len(s) |->
        IF s[i] = ":" THEN "%3A" ELSE IF s[i] = "\n" THEN "%0A" ELSE s[i]]

\* ------------------------------------------------------------ credentials
\* What ~/.netrc may be when the notebook logs in: missing; without an entry
\* for the endpoint; with one; with one, but readable by other users.
NetrcStates == {"absent", "noentry", "entry", "permissive"}

\* username, _, password = netrc.netrc().authenticators(endpoint): the
\* user's pair as the file stores it, or the exception raised (unpacking
\* None is a TypeError; a file other users can read is refused with "access
\* too permissive").
Authenticators(n) ==
    CASE n = "absent" -> "FileNotFoundError"
      [] n = "noentry" -> "TypeError"
      [] n = "permissive" -> "NetrcParseError"
      [] n = "entry" -> "pair"

\* except (FileNotFoundError, TypeError):
Caught(e) == e \in {"FileNotFoundError", "TypeError"}

IsException(c) ==
    c \in {"FileNotFoundError", "TypeError", "NetrcParseError", "EOFError"}

\* With no one to ask, the pair is left blank.
PromptDefaulted(interactive) == IF interactive THEN "pair" ELSE "blank"

\* input('Username:') and getpass.getpass(): the user's pair as the user
\* types it; with no one to ask (papermill, a closed stdin) the call raises.
Prompt(interactive) == IF interactive THEN "pair" ELSE "EOFError"

\* The try statement of setup_earthdata_login_auth.
Credentials(n, interactive) ==
    IF Caught(Authenticators(n)) THEN Prompt(interactive)
    ELSE Authenticators(n)

NoOpener == [credentials |-> "none", cookies |-> FALSE]

\* build_opener(auth, processor): basic authentication with the pair, and a
\* cookie jar.
Opener(c) == [credentials |-> c, cookies |-> TRUE]

NoLogin == [netrc |-> "none", interactive |-> FALSE, prompted |-> FALSE]

\* ------------------------------------------------------------------ Init
\* The notebook is run by one process, one run after the other.
Sequential == {1}

\* No run has started: every process is before its first cell.
InitRuns(P) ==
    /\ procs = P
    /\ runs = 0
    /\ pc = [p \in P |-> "Idle"]
    /\ timestamp = [p \in P |-> <<>>]
    /\ params = [p \in P |-> [created_at |-> <<>>]]
    /\ url = [p \in P |-> <<>>]
    /\ results = [p \in P |-> NoResults]
    /\ downloads = [p \in P |-> <<>>]
    /\ idx = [p \in P |-> 1]
    /\ opener = [p \in P |-> NoOpener]
    /\ pre = [p \in P |->
                [dir |-> dirExists, update |-> update, files |-> files]]
    /\ startAt = [p \in P |-> -1]
    /\ respAt = [p \in P |-> -1]
    /\ cand = [p \in P |-> <<>>]
    /\ failed = [p \in P |-> "none"]
    /\ fromFile = [p \in P |-> FALSE]
    /\ fetched = [p \in P |-> <<>>]
    /\ login = [p \in P |-> NoLogin]
    /\ tried = [p \in P |-> <<>>]
    /\ queries = [p \in P |-> <<>>]
    /\ last = [any |-> FALSE, created_at |-> <<>>, fromFile |-> FALSE,
               kind |-> "none", written |-> <<>>]

\* The state before the first run: the data directory may be missing, and
\* .update may be missing or end in a line break.
Init ==
    /\ now = Epoch
    /\ \/ dirExists = FALSE /\ update = NoFile
       \/ dirExists = TRUE
          /\ update \in {NoFile, File(PriorStamp),
                         File(PriorStamp \o <<"\r", "\n">>)}
    /\ files = [n \in FileNames |-> "absent"]
    /\ catalog = Responses
    /\ InitRuns(Sequential)

\* ----------------------------------------------------------------- clock
\* The steps that take time or read the clock: the default timestamp (cell
\* 9), the query and the capture of the new timestamp (cell 17).
ReadsClock(p) == pc[p] \in {"Authenticated", "Querying", "Capturing"}

\* Time passes.  Only a step that reads the clock can tell when, so the
\* clock is advanced just before such a step.
Tick ==
    /\ now < Epoch + MaxTicks
    /\ \E p \in procs : ReadsClock(p)
    /\ now' = now + 1
    /\ UNCHANGED <<dirExists, update, files, procs, runs, last>>
    /\ UNCHANGED catalog
    /\ UNCHANGED runVars
    /\ UNCHANGED histVars

\* ------------------------------------------------------- cell 2: the login
\* How the run of p ended: "empty" (Done, nothing to download), "advanced"
\* (Done, .update written), "failed" (a query, selection or download
\* raised), "persist" (writing .update raised), "login" (the login raised).
RunKind(p) ==
    IF pc[p] = "Done"
    THEN (IF Len(results[p].items) > 0 THEN "advanced" ELSE "empty")
    ELSE (IF failed[p] = "Finalizing" THEN "persist"
          ELSE IF failed[p] = "Authenticating" THEN "login" ELSE "failed")

\* A run starts (a fresh kernel: every notebook variable is unset, no opener
\* is installed) with setup_earthdata_login_auth(endpoint): the pair comes
\* from ~/.netrc or from the prompts, and the opener built with it is
\* installed; an exception other than the two caught ones, or one raised by
\* the prompts, ends the run.
Login(p) ==
    /\ pc[p] \in {"Idle", "Done", "Aborted"}
    /\ runs < MaxRuns
    /\ runs' = runs + 1
    /\ last' = IF pc[p] = "Idle" THEN last
               ELSE [any |-> TRUE,
                     created_at |-> params[p].created_at,
                     fromFile |-> fromFile[p],
                     kind |-> RunKind(p),
                     written |-> timestamp[p]]
    /\ \E n \in NetrcStates, interactive \in BOOLEAN :
          /\ login' = [login EXCEPT ![p] =
                         [netrc |-> n, interactive |-> interactive,
                          prompted |-> Caught(Authenticators(n))]]
          /\ IF IsException(Credentials(n, interactive))
             THEN /\ opener' = [opener EXCEPT ![p] = NoOpener]
                  /\ failed' = [failed EXCEPT ![p] = "Authenticating"]
                  /\ pc' = [pc EXCEPT ![p] = "Aborted"]
             ELSE /\ opener' = [opener EXCEPT ![p] =
                                  Opener(Credentials(n, interactive))]
                  /\ failed' = [failed EXCEPT ![p] = "none"]
                  /\ pc' = [pc EXCEPT ![p] = "Authenticated"]
    /\ timestamp' = [timestamp EXCEPT ![p] = <<>>]
    /\ params' = [params EXCEPT ![p] = [created_at |-> <<>>]]
    /\ url' = [url EXCEPT ![p] = <<>>]
    /\ results' = [results EXCEPT ![p] = NoResults]
    /\ downloads' = [downloads EXCEPT ![p] = <<>>]
    /\ idx' = [idx EXCEPT ![p] = 1]
    /\ pre' = [pre EXCEPT ![p] =
                 [dir |-> dirExists, update |-> update, files |-> files]]
    /\ startAt' = [startAt EXCEPT ![p] = -1]
    /\ respAt' = [respAt EXCEPT ![p] = -1]
    /\ cand' = [cand EXCEPT ![p] = <<>>]
    /\ fromFile' = [fromFile EXCEPT ![p] = FALSE]
    /\ fetched' = [fetched EXCEPT ![p] = <<>>]
    /\ tried' = [tried EXCEPT ![p] = <<>>]
    /\ queries' = [queries EXCEPT ![p] = <<>>]
    /\ UNCHANGED <<now, dirExists, update, files, procs, catalog>>

\* ------------------------------------------------- cell 9: default window
\* Cell 9 sets `timestamp` to the default, the clock minus `mins` minutes.
\* The login is over: what it found is no longer looked at.
StartRun(p) ==
    /\ pc[p] = "Authenticated"
    /\ pc' = [pc EXCEPT ![p] = "ResolvingWatermark"]
    /\ timestamp' = [timestamp EXCEPT ![p] = DefaultTimestamp(now)]
    /\ startAt' = [startAt EXCEPT ![p] = now]
    /\ login' = [login EXCEPT ![p] = NoLogin]
    /\ UNCHANGED <<now, dirExists, update, files, procs, runs, last>>
    /\ UNCHANGED catalog
    /\ UNCHANGED <<opener, params, url, results, downloads, idx>>
    /\ UNCHANGED <<pre, respAt, cand, failed, fromFile, fetched>>
    /\ UNCHANGED <<tried, queries>>

\* -------------------------------------------- cell 11: read the watermark
\* The read without its except branch: a missing .update ends the run.
ReadWatermarkUncaught(p) ==
    /\ pc[p] = "ResolvingWatermark"
    /\ IF ~dirExists
       THEN /\ dirExists' = TRUE
            /\ pc' = [pc EXCEPT ![p] = "BuildingQuery"]
            /\ UNCHANGED <<timestamp, fromFile, failed>>
       ELSE /\ UNCHANGED dirExists
            /\ IF ~update.exists
               THEN /\ failed' = [failed EXCEPT ![p] = "ResolvingWatermark"]
                    /\ pc' = [pc EXCEPT ![p] = "Aborted"]
                    /\ UNCHANGED <<timestamp, fromFile>>
               ELSE /\ timestamp' = [timestamp EXCEPT
                                        ![p] = ReadText(update.text)]
                    /\ fromFile' = [fromFile EXCEPT ![p] = TRUE]
                    /\ pc' = [pc EXCEPT ![p] = "BuildingQuery"]
                    /\ UNCHANGED failed
    /\ UNCHANGED <<now, update, files, procs, runs, last>>
    /\ UNCHANGED catalog
    /\ UNCHANGED <<opener, params, url, results, downloads, idx>>
    /\ UNCHANGED <<pre, startAt, respAt, cand, fetched>>
    /\ UNCHANGED <<login, tried, queries>>

\* No data directory: make it and keep the default.  A directory without
\* .update: warn and keep the default.  Otherwise `timestamp` becomes the
\* whole text of .update.
ReadWatermark(p) ==
    /\ pc[p] = "ResolvingWatermark"
    /\ IF ~dirExists
       THEN /\ dirExists' = TRUE
            /\ UNCHANGED <<timestamp, fromFile>>
       ELSE /\ UNCHANGED dirExists
            /\ IF ~update.exists
               THEN UNCHANGED <<timestamp, fromFile>>
               ELSE /\ timestamp' = [timestamp EXCEPT
                                        ![p] = ReadText(update.text)]
                    /\ fromFile' = [fromFile EXCEPT ![p] = TRUE]
    /\ pc' = [pc EXCEPT ![p] = "BuildingQuery"]
    /\ UNCHANGED <<now, update, files, procs, runs, last>>
    /\ UNCHANGED catalog
    /\ UNCHANGED <<params, url, results, downloads, idx>>
    /\ UNCHANGED <<pre, startAt, respAt, cand, failed, fetched>>
    /\ UNCHANGED <<opener, login, tried, queries>>

\* ------------------------------------ cells 13 and 15: params and the url
BuildQuery(p) ==
    /\ pc[p] = "BuildingQuery"
    /\ params' = [params EXCEPT ![p] = [created_at |-> timestamp[p]]]
    /\ url' = [url EXCEPT ![p] = Urlencode(timestamp[p])]
    /\ pc' = [pc EXCEPT ![p] = "Querying"]
    /\ UNCHANGED <<now, dirExists, update, files, procs, runs, last>>
    /\ UNCHANGED catalog
    /\ UNCHANGED <<timestamp, results, downloads, idx>>
    /\ UNCHANGED histVars
    /\ UNCHANGED opener

\* ------------------------------- cell 17: the query and the new timestamp
\* The failed query is sent once more instead of ending the run.
QueryFailsRetry(p) ==
    /\ pc[p] = "Querying"
    /\ Len(queries[p]) < 2
    /\ failed' = [failed EXCEPT ![p] = "Querying"]
    /\ queries' = [queries EXCEPT ![p] = Append(@, url[p])]
    /\ UNCHANGED <<now, dirExists, update, files, procs, runs, last>>
    /\ UNCHANGED catalog
    /\ UNCHANGED runVars
    /\ UNCHANGED <<pre, startAt, respAt, cand, fromFile, fetched>>
    /\ UNCHANGED <<login, tried>>

\* urlopen(url) or f.read() raises (HTTP error status, transport failure):
\* the run ends.
QueryFails(p) ==
    /\ pc[p] = "Querying"
    /\ failed' = [failed EXCEPT ![p] = "Querying"]
    /\ pc' = [pc EXCEPT ![p] = "Aborted"]
    /\ UNCHANGED <<now, dirExists, update, files, procs, runs, last>>
    /\ UNCHANGED catalog
    /\ UNCHANGED <<timestamp, params, url, results, downloads, idx>>
    /\ UNCHANGED <<pre, startAt, respAt, cand, fromFile, fetched>>
    /\ queries' = [queries EXCEPT ![p] = Append(@, url[p])]
    /\ UNCHANGED <<opener, login, tried>>

\* with urlopen(url) as f: results = loads(f.read().decode()): the response
\* has been read.
ReceiveResponse(p) ==
    /\ pc[p] = "Querying"
    /\ \E r \in catalog : results' = [results EXCEPT ![p] = r]
    /\ respAt' = [respAt EXCEPT ![p] = now]
    /\ pc' = [pc EXCEPT ![p] = "Capturing"]
    /\ UNCHANGED <<now, dirExists, update, files, procs, runs, last>>
    /\ UNCHANGED catalog
    /\ UNCHANGED <<timestamp, params, url, downloads, idx>>
    /\ UNCHANGED <<pre, startAt, cand, failed, fromFile, fetched>>
    /\ queries' = [queries EXCEPT ![p] = Append(@, url[p])]
    /\ UNCHANGED <<opener, login, tried>>

\* No new reading: the one the run made before the query, in cell 9.
CaptureClockBeforeQuery(p) == startAt[p]

\* The reading of cell 9 less the default window, as `timestamp` held it.
CaptureClockStale(p) == startAt[p] - Timedelta(mins)

\* datetime.utcnow() of the last line of cell 17.
CaptureClock(p) == now

\* The capture stored through to the parameters: `params` and `url` follow
\* the new value of `timestamp`.
CaptureTimestampIntoParams(p) ==
    /\ pc[p] = "Capturing"
    /\ timestamp' = [timestamp EXCEPT ![p] = Strftime(CaptureClock(p))]
    /\ cand' = [cand EXCEPT ![p] = timestamp'[p]]
    /\ params' = [params EXCEPT ![p] = [created_at |-> timestamp'[p]]]
    /\ url' = [url EXCEPT ![p] = Urlencode(timestamp'[p])]
    /\ pc' = [pc EXCEPT ![p] = "Selecting"]
    /\ UNCHANGED <<now, dirExists, update, files, procs, runs, last>>
    /\ UNCHANGED catalog
    /\ UNCHANGED <<opener, results, downloads, idx>>
    /\ UNCHANGED <<pre, startAt, respAt, failed, fromFile, fetched>>
    /\ UNCHANGED <<login, tried, queries>>

\* timestamp = datetime.utcnow().strftime(...), after the response was read.
CaptureTimestamp(p) ==
    /\ pc[p] = "Capturing"
    /\ timestamp' = [timestamp EXCEPT ![p] = Strftime(CaptureClock(p))]
    /\ cand' = [cand EXCEPT ![p] = timestamp'[p]]
    /\ pc' = [pc EXCEPT ![p] = "Selecting"]
    /\ UNCHANGED <<now, dirExists, update, files, procs, runs, last>>
    /\ UNCHANGED catalog
    /\ UNCHANGED <<params, url, results, downloads, idx>>
    /\ UNCHANGED <<pre, startAt, respAt, failed, fromFile, fetched>>
    /\ UNCHANGED <<opener, login, tried, queries>>

\* ------------------------------------------ cell 21: the download links
IsGetData(u) == u.Type = GetData

\* [u['URL'] for u in r['umm']['RelatedUrls'] if u['Type']=="GET DATA"]
GetDataUrls(r) ==
    LET links == SelectSeq(r.umm.RelatedUrls, IsGetData)
    IN  [i \in 1..Len(links) |-> links[i].URL]

\* The last matching link instead of the first.
SelectUrlLast(r) == GetDataUrls(r)[Len(GetDataUrls(r))]

\* [...][0]: the first matching link; IndexError when there is none.
SelectUrl(r) == GetDataUrls(r)[1]

HasGetData(r) == GetDataUrls(r) # <<>>

\* A selection that passes over the records without a data link.
SelectAvailable(p) ==
    /\ pc[p] = "Selecting"
    /\ LET items == SelectSeq(results[p].items, HasGetData)
       IN  downloads' = [downloads EXCEPT ![p] =
                           [i \in 1..Len(items) |-> SelectUrl(items[i])]]
    /\ pc' = [pc EXCEPT ![p] = "Downloading"]
    /\ UNCHANGED <<now, dirExists, update, files, procs, runs, last>>
    /\ UNCHANGED catalog
    /\ UNCHANGED <<opener, timestamp, params, url, results, idx>>
    /\ UNCHANGED histVars

\* downloads = [[...][0] for r in results['items']]: the whole list is built
\* before anything is fetched; a record without a data link raises.
Select(p) ==
    /\ pc[p] = "Selecting"
    /\ LET items == results[p].items
       IN  IF \E i \in 1..Len(items) : GetDataUrls(items[i]) = <<>>
           THEN /\ failed' = [failed EXCEPT ![p] = "Selecting"]
                /\ pc' = [pc EXCEPT ![p] = "Aborted"]
                /\ UNCHANGED downloads
           ELSE /\ downloads' = [downloads EXCEPT ![p] =
                                  [i \in 1..Len(items) |-> SelectUrl(items[i])]]
                /\ pc' = [pc EXCEPT ![p] = "Downloading"]
                /\ UNCHANGED failed
    /\ UNCHANGED <<now, dirExists, update, files, procs, runs, last>>
    /\ UNCHANGED catalog
    /\ UNCHANGED <<timestamp, params, url, results, idx>>
    /\ UNCHANGED <<pre, startAt, respAt, cand, fromFile, fetched>>
    /\ UNCHANGED <<opener, login, tried, queries>>

\* A download loop that records its progress: .update is written after each
\* file.
DownloadOkCheckpoint(p) ==
    /\ pc[p] = "Downloading"
    /\ idx[p] <= Len(downloads[p])
    /\ files' = [files EXCEPT ![Basename(downloads[p][idx[p]])] = "complete"]
    /\ update' = File(timestamp[p])
    /\ fetched' = [fetched EXCEPT ![p] = Append(@, downloads[p][idx[p]])]
    /\ tried' = [tried EXCEPT ![p] = Append(@, downloads[p][idx[p]])]
    /\ idx' = [idx EXCEPT ![p] = @ + 1]
    /\ UNCHANGED <<now, dirExists, procs, runs, last, catalog>>
    /\ UNCHANGED <<pc, opener, timestamp, params, url, results, downloads>>
    /\ UNCHANGED <<pre, startAt, respAt, cand, failed, fromFile>>
    /\ UNCHANGED <<login, queries>>

\* ----------------------------------------------- cell 23: the download loop
\* urlretrieve(f, f"{data}/{basename(f)}") returns: the file is complete.
DownloadOk(p) ==
    /\ pc[p] = "Downloading"
    /\ idx[p] <= Len(downloads[p])
    /\ files' = [files EXCEPT ![Basename(downloads[p][idx[p]])] = "complete"]
    /\ fetched' = [fetched EXCEPT ![p] = Append(@, downloads[p][idx[p]])]
    /\ idx' = [idx EXCEPT ![p] = @ + 1]
    /\ UNCHANGED <<now, dirExists, update, procs, runs, last>>
    /\ UNCHANGED catalog
    /\ UNCHANGED <<pc, timestamp, params, url, results, downloads>>
    /\ UNCHANGED <<pre, startAt, respAt, cand, failed, fromFile>>
    /\ tried' = [tried EXCEPT ![p] = Append(@, downloads[p][idx[p]])]
    /\ UNCHANGED <<opener, login, queries>>

\* A failed download clears the data directory of the granule files.
AfterFailedFetchRollback(f) == {[n \in FileNames |-> "absent"]}

\* The file a failed urlretrieve leaves: untouched when the transfer never
\* started, cut short when it broke off.
AfterFailedFetch(f) ==
    {files, [files EXCEPT ![Basename(f)] = "partial"]}

\* The except branch without its `raise e`: the loop goes on to the next URL.
DownloadFailsSwallowed(p) ==
    /\ pc[p] = "Downloading"
    /\ idx[p] <= Len(downloads[p])
    /\ files' \in AfterFailedFetch(downloads[p][idx[p]])
    /\ failed' = [failed EXCEPT ![p] = "Downloading"]
    /\ idx' = [idx EXCEPT ![p] = @ + 1]
    /\ UNCHANGED <<now, dirExists, update, procs, runs, last>>
    /\ UNCHANGED catalog
    /\ UNCHANGED <<pc, timestamp, params, url, results, downloads>>
    /\ UNCHANGED <<pre, startAt, respAt, cand, fromFile, fetched>>
    /\ tried' = [tried EXCEPT ![p] = Append(@, downloads[p][idx[p]])]
    /\ UNCHANGED <<opener, login, queries>>

\* urlretrieve raises: the failure is printed and raised again, the run ends.
DownloadFails(p) ==
    /\ pc[p] = "Downloading"
    /\ idx[p] <= Len(downloads[p])
    /\ files' \in AfterFailedFetch(downloads[p][idx[p]])
    /\ failed' = [failed EXCEPT ![p] = "Downloading"]
    /\ pc' = [pc EXCEPT ![p] = "Aborted"]
    /\ UNCHANGED <<now, dirExists, update, procs, runs, last>>
    /\ UNCHANGED catalog
    /\ UNCHANGED <<timestamp, params, url, results, downloads, idx>>
    /\ UNCHANGED <<pre, startAt, respAt, cand, fromFile, fetched>>
    /\ tried' = [tried EXCEPT ![p] = Append(@, downloads[p][idx[p]])]
    /\ UNCHANGED <<opener, login, queries>>

\* The loop has gone through `downloads`.
EndLoop(p) ==
    /\ pc[p] = "Downloading"
    /\ idx[p] > Len(downloads[p])
    /\ pc' = [pc EXCEPT ![p] = "Finalizing"]
    /\ UNCHANGED <<now, dirExists, update, files, procs, runs, last>>
    /\ UNCHANGED catalog
    /\ UNCHANGED <<timestamp, params, url, results, downloads, idx>>
    /\ UNCHANGED histVars
    /\ UNCHANGED opener

\* --------------------------------------------- cell 25: write the watermark
\* A guard that lets every run write.
HasUpdatesAlways(p) == TRUE

\* A guard that holds the watermark back while granules that matched are
\* not on the page.
HasUpdatesComplete(p) ==
    Len(results[p].items) > 0 /\ results[p].hits <= Len(results[p].items)

\* len(results['items'])>0
HasUpdates(p) == Len(results[p].items) > 0

\* Nothing was returned: the run is over, .update is not opened.
FinishWithoutUpdates(p) ==
    /\ pc[p] = "Finalizing"
    /\ ~HasUpdates(p)
    /\ pc' = [pc EXCEPT ![p] = "Done"]
    /\ UNCHANGED <<now, dirExists, update, files, procs, runs, last>>
    /\ UNCHANGED catalog
    /\ UNCHANGED <<timestamp, params, url, results, downloads, idx>>
    /\ UNCHANGED histVars
    /\ UNCHANGED opener

\* open(f"{data}/.update", "w"): the file is created or cut to length zero.
OpenUpdate(p) ==
    /\ pc[p] = "Finalizing"
    /\ HasUpdates(p)
    /\ update' = File(<<>>)
    /\ pc' = [pc EXCEPT ![p] = "Writing"]
    /\ UNCHANGED <<now, dirExists, files, procs, runs, last>>
    /\ UNCHANGED catalog
    /\ UNCHANGED <<timestamp, params, url, results, downloads, idx>>
    /\ UNCHANGED histVars
    /\ UNCHANGED opener

\* open raises (OSError): the file is as it was, the run ends.
OpenUpdateFails(p) ==
    /\ pc[p] = "Finalizing"
    /\ HasUpdates(p)
    /\ failed' = [failed EXCEPT ![p] = "Finalizing"]
    /\ pc' = [pc EXCEPT ![p] = "Aborted"]
    /\ UNCHANGED <<now, dirExists, update, files, procs, runs, last>>
    /\ UNCHANGED catalog
    /\ UNCHANGED <<timestamp, params, url, results, downloads, idx>>
    /\ UNCHANGED <<pre, startAt, respAt, cand, fromFile, fetched>>
    /\ UNCHANGED <<opener, login, tried, queries>>

\* The text written is the parameter the query was built with.
WrittenValueCreatedAt(p) == params[p].created_at

\* f.write(timestamp)
WrittenValue(p) == WriteText(timestamp[p])

\* f.write(timestamp) and the close of the with block: .update holds the text.
WriteUpdate(p) ==
    /\ pc[p] = "Writing"
    /\ update' = File(WrittenValue(p))
    /\ pc' = [pc EXCEPT ![p] = "Done"]
    /\ UNCHANGED <<now, dirExists, files, procs, runs, last>>
    /\ UNCHANGED catalog
    /\ UNCHANGED <<timestamp, params, url, results, downloads, idx>>
    /\ UNCHANGED histVars
    /\ UNCHANGED opener

\* Where a failing write may stop: before the first character, or short of
\* the last one.
CutPoints(text) == {0, Len(text) - 1}

\* The write or the flush at close raises (OSError): .update holds a proper
\* prefix of the text, possibly nothing, and the run ends.
WriteUpdateFails(p) ==
    /\ pc[p] = "Writing"
    /\ \E k \in CutPoints(WrittenValue(p)) :
          update' = File(SubSeq(WrittenValue(p), 1, k))
    /\ failed' = [failed EXCEPT ![p] = "Finalizing"]
    /\ pc' = [pc EXCEPT ![p] = "Aborted"]
    /\ UNCHANGED <<now, dirExists, files, procs, runs, last>>
    /\ UNCHANGED catalog
    /\ UNCHANGED <<timestamp, params, url, results, downloads, idx>>
    /\ UNCHANGED <<pre, startAt, respAt, cand, fromFile, fetched>>
    /\ UNCHANGED <<opener, login, tried, queries>>

\* ------------------------------------------------------------------ Next
Run(p) ==
    \/ Login(p)
    \/ StartRun(p)
    \/ ReadWatermark(p)
    \/ BuildQuery(p)
    \/ QueryFails(p)
    \/ ReceiveResponse(p)
    \/ CaptureTimestamp(p)
    \/ Select(p)
    \/ DownloadOk(p)
    \/ DownloadFails(p)
    \/ EndLoop(p)
    \/ FinishWithoutUpdates(p)
    \/ OpenUpdate(p)
    \/ OpenUpdateFails(p)
    \/ WriteUpdate(p)
    \/ WriteUpdateFails(p)

Next == Tick \/ \E p \in Sequential : Run(p)

Spec == Init /\ [][Next]_vars

\* =================================================================== claims
\* The run of p has had its query answered / has made its query.
Answered(p) == respAt[p] # -1

Queried(p) == Answered(p) \/ failed[p] = "Querying"

\* C1: fail-closed on download error: in a run in which a download failed,
\* however many downloads succeeded before it, .update is never written: it
\* is as it was when the run started (same contents, or still absent).
C1_FailClosedOnDownloadError ==
    \A p \in procs : failed[p] = "Downloading" => update = pre[p].update

\* C1 witness: a run of two downloads ended by the failure of the second,
\* the first having succeeded, with .update present before the run.
C1_Witness ==
    \E p \in procs :
        /\ pc[p] = "Aborted" /\ failed[p] = "Downloading"
        /\ Len(downloads[p]) = 2 /\ Len(fetched[p]) = 1
        /\ pre[p].update.exists /\ update = pre[p].update

\* C2: idempotence of empty windows: a run whose query returned no items
\* goes on to Done without failing and without opening .update, which is
\* as it was when the run started.
C2_EmptyWindowIdempotent ==
    \A p \in procs :
        (Answered(p) /\ results[p].items = <<>>) =>
            /\ update = pre[p].update
            /\ failed[p] = "none"
            /\ pc[p] \in {"Capturing", "Selecting", "Downloading",
                          "Finalizing", "Done"}

\* C2 witness: a run that ended Done on an empty response, .update present.
C2_Witness ==
    \E p \in procs :
        /\ pc[p] = "Done" /\ Answered(p) /\ results[p].items = <<>>
        /\ pre[p].update.exists /\ update = pre[p].update

C4_MonotonicWatermark ==
    \A p \in procs :
        /\ (pc[p] = "Done" /\ IsStamp(pre[p].update.text)) =>
              /\ IsStamp(update.text)
              /\ SecondsOf(update.text) >= SecondsOf(pre[p].update.text)
        /\ (pc[p] # "Idle" /\ IsStamp(pre[p].update.text)
            /\ IsStamp(update.text)) =>
              SecondsOf(update.text) >= SecondsOf(pre[p].update.text)

\* C4 witness: two successful runs in a row, the second leaving a later
\* timestamp than the first.
C4_Witness ==
    \E p \in procs :
        /\ last.any /\ last.kind = "advanced"
        /\ pre[p].update = File(last.written)
        /\ pc[p] = "Done" /\ Len(results[p].items) > 0
        /\ SecondsOf(update.text) > SecondsOf(pre[p].update.text)

\* The previous run ended without advancing the watermark: it got no items,
\* or its query, its selection or a download failed.
PrevNotAdvanced == last.any /\ last.kind \in {"empty", "failed"}

C6_StoredEqualsCreatedAt ==
    \A p \in procs :
        (pc[p] = "Done" /\ Len(results[p].items) > 0) =>
            update = File(params[p].created_at)

ParamsBuilt(p) ==
    /\ pc[p] \notin {"Idle", "Authenticated", "ResolvingWatermark",
                    "BuildingQuery"}
    /\ failed[p] # "Authenticating"

\* The run of p started without a data directory (and so without .update)
\* and has its parameters built.
Bootstrapped(p) == ~pre[p].dir /\ ParamsBuilt(p)

\* C8 (as claimed): default bootstrap: in a run that found neither the data
\* directory nor .update, the directory exists before the query is made and
\* created_at equals the run's start time minus mins minutes.
C8_DefaultBootstrap ==
    \A p \in procs :
        Bootstrapped(p) =>
            /\ dirExists
            /\ IsStamp(params[p].created_at)
            /\ SecondsOf(params[p].created_at) * TicksPerSec
                 = startAt[p] - mins * 60 * TicksPerSec

\* C8 (amended): as C8, created_at being the run's start time minus mins
\* minutes cut to the whole second.
C8_DefaultBootstrapSecond ==
    \A p \in procs :
        Bootstrapped(p) =>
            /\ dirExists
            /\ IsStamp(params[p].created_at)
            /\ SecondsOf(params[p].created_at)
                 = (startAt[p] - mins * 60 * TicksPerSec) \div TicksPerSec
            /\ url[p] = Urlencode(params[p].created_at)

\* C8 witness: a bootstrap run started part-way through a second whose
\* query has been answered.
C8_Witness ==
    \E p \in procs :
        /\ Bootstrapped(p) /\ Answered(p) /\ dirExists
        /\ ~pre[p].update.exists
        /\ startAt[p] % TicksPerSec # 0

\* C9: round-trip format: the run after one that wrote the timestamp T to
\* .update reads back exactly the string T, and makes its query with
\* created_at = T.
C9_RoundTrip ==
    \A p \in procs :
        (last.any /\ last.kind = "advanced") =>
            /\ pc[p] = "BuildingQuery" => timestamp[p] = last.written
            /\ ParamsBuilt(p) => params[p].created_at = last.written

\* C9 witness: a query answered in the run after one that wrote .update.
C9_Witness ==
    \E p \in procs :
        /\ last.any /\ last.kind = "advanced" /\ IsStamp(last.written)
        /\ fromFile[p] /\ Answered(p)
        /\ params[p].created_at = last.written

\* The selection of the run of p has been made.
Selected(p) ==
    \/ pc[p] \in {"Downloading", "Finalizing", "Writing", "Done"}
    \/ pc[p] = "Aborted" /\ failed[p] \in {"Downloading", "Finalizing"}

\* C10: link selection: once the selection is made, `downloads` holds one
\* URL per record, in the order of the result set, and the URL of a record
\* is that of its first link of type "GET DATA" in list order.
C10_FirstGetDataLink ==
    \A p \in procs :
        Selected(p) =>
            /\ Len(downloads[p]) = Len(results[p].items)
            /\ \A i \in 1..Len(downloads[p]) :
                  LET links == results[p].items[i].umm.RelatedUrls
                  IN  \E k \in 1..Len(links) :
                         /\ links[k].Type = "GET DATA"
                         /\ \A j \in 1..(k - 1) : links[j].Type # "GET DATA"
                         /\ downloads[p][i] = links[k].URL

\* C10 witness: a selection over two records, one of them with two links of
\* type "GET DATA".
C10_Witness ==
    \E p \in procs :
        /\ Selected(p) /\ Len(downloads[p]) = 2
        /\ \E i \in 1..2 :
              Len(GetDataUrls(results[p].items[i])) = 2

\* Some record of the response read by the run of p has no link of type
\* "GET DATA".
LacksLink(p) ==
    \E i \in 1..Len(results[p].items) :
        \A k \in 1..Len(results[p].items[i].umm.RelatedUrls) :
            results[p].items[i].umm.RelatedUrls[k].Type # "GET DATA"

\* C11: selection is fail-closed: when a record of the result set has no
\* link of type "GET DATA", the run ends in the selection, before the first
\* download: no URL is passed to urlretrieve, not even for the records
\* listed before it, the granule files and .update are as they were when
\* the run started.
C11_SelectionFailClosed ==
    \A p \in procs :
        (Answered(p) /\ LacksLink(p)) =>
            /\ tried[p] = <<>>
            /\ files = pre[p].files
            /\ update = pre[p].update
            /\ pc[p] \in {"Capturing", "Selecting", "Aborted"}
            /\ pc[p] = "Aborted" => failed[p] = "Selecting"

\* C11 witness: a run ended by the selection over two records, the first
\* with a data link and the second without, .update present.
C11_Witness ==
    \E p \in procs :
        /\ pc[p] = "Aborted" /\ failed[p] = "Selecting"
        /\ Len(results[p].items) = 2
        /\ GetDataUrls(results[p].items[1]) # <<>>
        /\ GetDataUrls(results[p].items[2]) = <<>>
        /\ pre[p].update.exists

\* str.strip(): white space removed at both ends.
Whitespace == {" ", "\t", "\n", "\r"}

RECURSIVE Lstrip(_)
Lstrip(text) ==
    IF text # <<>> /\ text[1] \in Whitespace THEN Lstrip(Tail(text)) ELSE text

RECURSIVE Rstrip(_)
Rstrip(text) ==
    IF text # <<>> /\ text[Len(text)] \in Whitespace
    THEN Rstrip(SubSeq(text, 1, Len(text) - 1))
    ELSE text

Trim(text) == Rstrip(Lstrip(text))

\* The run of p found an .update whose contents, white space trimmed, are
\* not a timestamp, and is past the reading of it.
ReadCorrupt(p) ==
    /\ pre[p].dir /\ pre[p].update.exists
    /\ ~IsStamp(Trim(pre[p].update.text))
    /\ pc[p] \notin {"Idle", "Authenticated", "ResolvingWatermark"}
    /\ failed[p] # "Authenticating"

\* C12: a corrupt watermark is rejected: when .update exists and its
\* trimmed contents do not parse as a timestamp, the run ends at the read:
\* no query is sent and the contents never become created_at.
C12_CorruptWatermarkRejected ==
    \A p \in procs :
        ReadCorrupt(p) =>
            /\ queries[p] = <<>>
            /\ params[p].created_at = <<>>

\* C13: the write of the watermark is all-or-nothing: in every state of a
\* run and after it, also when the write raised or broke off, .update holds
\* the whole value it had when the run started or the whole timestamp the
\* run captured, never nothing and never a part of it.
C13_AllOrNothingWrite ==
    \A p \in procs :
        pc[p] # "Idle" =>
            \/ update = pre[p].update
            \/ cand[p] # <<>> /\ update = File(cand[p])

\* C14: downloads are sequential and fail-fast: the URLs passed to
\* urlretrieve are, in order and once each, the first entries of
\* `downloads`; a failed download is the last one the run attempts and ends
\* the run; the files downloaded before it in the run stay, complete, in the
\* data directory.
C14_SequentialFailFast ==
    \A p \in procs :
        /\ Len(tried[p]) <= Len(downloads[p])
        /\ tried[p] = SubSeq(downloads[p], 1, Len(tried[p]))
        /\ failed[p] = "Downloading" =>
              /\ pc[p] = "Aborted"
              /\ Len(tried[p]) = Len(fetched[p]) + 1
              /\ fetched[p] = SubSeq(tried[p], 1, Len(fetched[p]))
        /\ failed[p] # "Downloading" => tried[p] = fetched[p]
        /\ \A i \in 1..Len(fetched[p]) :
              files[fetched[p][i][Len(fetched[p][i])]] = "complete"

\* C14 witness: a run of two or more downloads ended by the failure of the
\* second, the file of the first still in the data directory.
C14_Witness ==
    \E p \in procs :
        /\ pc[p] = "Aborted" /\ failed[p] = "Downloading"
        /\ Len(downloads[p]) >= 2 /\ Len(tried[p]) = 2
        /\ Len(fetched[p]) = 1
        /\ files[fetched[p][1][Len(fetched[p][1])]] = "complete"
        /\ pre[p].files[fetched[p][1][Len(fetched[p][1])]] = "absent"

\* C15: a failed catalog query ends the run in Querying: the query was sent
\* once and is not sent again, no response is read, no timestamp is
\* captured, nothing is selected or downloaded, and .update and the granule
\* files are as they were when the run started.
C15_QueryFailureAborts ==
    \A p \in procs :
        failed[p] = "Querying" =>
            /\ pc[p] = "Aborted"
            /\ Len(queries[p]) = 1
            /\ ~Answered(p) /\ results[p] = NoResults
            /\ cand[p] = <<>>
            /\ timestamp[p] = params[p].created_at
            /\ downloads[p] = <<>> /\ tried[p] = <<>>
            /\ update = pre[p].update
            /\ files = pre[p].files

\* C15 witness: a run that read .update and was ended by its query.
C15_Witness ==
    \E p \in procs :
        /\ pc[p] = "Aborted" /\ failed[p] = "Querying"
        /\ fromFile[p] /\ pre[p].update.exists
        /\ Len(queries[p]) = 1

C17_SinglePageQuery ==
    \A p \in procs :
        /\ Len(queries[p]) <= 1
        /\ Answered(p) => Len(queries[p]) = 1
        /\ Len(results[p].items) <= page_size
        /\ Len(tried[p]) <= Len(results[p].items)
        /\ \A i \in 1..Len(downloads[p]) :
              \E k \in 1..Len(results[p].items[i].umm.RelatedUrls) :
                  downloads[p][i] = results[p].items[i].umm.RelatedUrls[k].URL
        /\ (pc[p] = "Done" /\ Len(results[p].items) > 0) =>
              update = File(cand[p])

\* C17 witness: a run that ended Done on a full page while one more granule
\* matched, .update advanced to the captured timestamp.
C17_Witness ==
    \E p \in procs :
        /\ pc[p] = "Done"
        /\ Len(results[p].items) = page_size
        /\ results[p].hits > page_size
        /\ Len(queries[p]) = 1
        /\ Len(fetched[p]) = page_size
        /\ update = File(cand[p]) /\ update # pre[p].update

\* The run of p found the data directory without .update in it, and is
\* past the reading of the watermark.
NoWatermark(p) ==
    /\ pre[p].dir /\ ~pre[p].update.exists
    /\ pc[p] \notin {"Idle", "Authenticated", "ResolvingWatermark"}
    /\ failed[p] # "Authenticating"

\* C18: a data directory without .update: the read keeps the default of the
\* bootstrap case (the clock of cell 9 less mins minutes, to the second)
\* and the run goes on to its query with it; the read does not end the run,
\* the directory stays, and no .update exists before cell 25 writes one.
C18_MissingUpdateDefault ==
    \A p \in procs :
        NoWatermark(p) =>
            /\ dirExists /\ ~fromFile[p]
            /\ failed[p] \in {"none", "Querying", "Selecting", "Downloading",
                              "Finalizing"}
            /\ IsStamp(IF ParamsBuilt(p) THEN params[p].created_at
                       ELSE timestamp[p])
            /\ SecondsOf(IF ParamsBuilt(p) THEN params[p].created_at
                         ELSE timestamp[p])
                 = (startAt[p] - mins * 60 * TicksPerSec) \div TicksPerSec
            /\ pc[p] \in {"BuildingQuery", "Querying", "Capturing",
                          "Selecting", "Downloading", "Finalizing"} =>
                  update = NoFile
            /\ (pc[p] = "Aborted" /\ failed[p] # "Finalizing") =>
                  update = NoFile

\* C18 witness: a run that found the directory without .update and has
\* had its query answered, .update still absent.
C18_Witness ==
    \E p \in procs :
        /\ NoWatermark(p) /\ Answered(p)
        /\ startAt[p] % TicksPerSec # 0
        /\ update = NoFile /\ dirExists

\* The watermark the run of p resolved in cells 9 and 11: the text of the
\* .update it found, or the default.
Resolved(p) ==
    IF pre[p].dir /\ pre[p].update.exists
    THEN (IF \A i \in 1..Len(pre[p].update.text) :
                pre[p].update.text[i] # "\r"
          THEN pre[p].update.text
          ELSE ReadText(pre[p].update.text))
    ELSE Strftime(startAt[p] - Timedelta(mins))

\* C19: the parameters are built once: from cell 13 on, created_at is the
\* watermark resolved at the start of the run and `url` is its encoding,
\* the query sent was that url, and the capture of the new timestamp into
\* the same variable `timestamp` changes neither.
C19_ParamsBuiltOnce ==
    \A p \in procs :
        ParamsBuilt(p) =>
            LET watermark == Resolved(p)
                query == Urlencode(watermark)
            IN  /\ params[p].created_at = watermark
                /\ url[p] = query
                /\ \A i \in 1..Len(queries[p]) : queries[p][i] = query
                /\ cand[p] # <<>> => timestamp[p] = cand[p]
                /\ cand[p] = <<>> => timestamp[p] = watermark

\* C19 witness: a run that read .update, sent its query and captured a
\* new timestamp different from the created_at it sent.
C19_Witness ==
    \E p \in procs :
        /\ ParamsBuilt(p) /\ fromFile[p]
        /\ cand[p] # <<>> /\ timestamp[p] = cand[p]
        /\ cand[p] # params[p].created_at
        /\ Len(queries[p]) = 1 /\ queries[p][1] = url[p]

Overlapping == {1, 2}

\* The responses of the overlap behaviours: no granule, or one granule with
\* one data link.
OverlapResponses ==
    { r \in Responses :
        r.items \in {<<>>, <<Record(<<Link(GetData, UrlA)>>)>>} }

\* The data directory holds a watermark of an earlier run.
InitOverlap ==
    /\ now = Epoch
    /\ dirExists = TRUE
    /\ update = File(PriorStamp)
    /\ files = [n \in FileNames |-> "absent"]
    /\ catalog = OverlapResponses
    /\ InitRuns(Overlapping)

\* Each kernel runs the notebook once.
LoginOnce(p) == pc[p] = "Idle" /\ Login(p)

RunOnce(p) ==
    \/ LoginOnce(p)
    \/ StartRun(p)
    \/ ReadWatermark(p)
    \/ BuildQuery(p)
    \/ QueryFails(p)
    \/ ReceiveResponse(p)
    \/ CaptureTimestamp(p)
    \/ Select(p)
    \/ DownloadOk(p)
    \/ DownloadFails(p)
    \/ EndLoop(p)
    \/ FinishWithoutUpdates(p)
    \/ OpenUpdate(p)
    \/ OpenUpdateFails(p)
    \/ WriteUpdate(p)
    \/ WriteUpdateFails(p)

\* Any interleaving of the cells of the two kernels.
NextOverlap == Tick \/ \E p \in Overlapping : RunOnce(p)

SpecOverlap == InitOverlap /\ [][NextOverlap]_vars

\* C22 (as claimed): the value in .update never decreases, whether or not
\* runs overlap: in no state does .update hold a timestamp earlier than the
\* one a run started from or than one a run has written.
C22_MonotonicWithoutSerialization ==
    \A p \in procs :
        /\ (pc[p] # "Idle" /\ IsStamp(pre[p].update.text)
            /\ IsStamp(update.text)) =>
              SecondsOf(update.text) >= SecondsOf(pre[p].update.text)
        /\ (pc[p] = "Done" /\ Len(results[p].items) > 0
            /\ IsStamp(update.text)) =>
              SecondsOf(update.text) >= SecondsOf(cand[p])

\* C22 (amended): what overlapping runs keep: a run that ends Done with
\* items has written its own captured timestamp, which is not earlier than
\* the watermark that run read at its start; and a timestamp in .update is
\* the one some run found at its start or the one some run captured.
C22_OverlapWritesOwnCandidate ==
    /\ \A p \in procs :
          (pc[p] = "Done" /\ Len(results[p].items) > 0) =>
              /\ IsStamp(cand[p])
              /\ (fromFile[p] /\ IsStamp(params[p].created_at)) =>
                    SecondsOf(cand[p]) >= SecondsOf(params[p].created_at)
    /\ IsStamp(update.text) =>
          \E q \in procs :
              \/ update = pre[q].update
              \/ cand[q] # <<>> /\ update = File(cand[q])

\* C22 witness: both overlapping runs ended Done with items, and .update
\* holds the timestamp of the one that captured earlier.
C22_Witness ==
    \E p, q \in procs :
        /\ pc[p] = "Done" /\ Len(results[p].items) > 0
        /\ pc[q] = "Done" /\ Len(results[q].items) > 0
        /\ pre[p].update = File(PriorStamp) /\ pre[q].update = File(PriorStamp)
        /\ update = File(cand[p])
        /\ SecondsOf(cand[p]) < SecondsOf(cand[q])

\* ------------------------------------------------- a started run goes on
\* A run is under way: past its login and not yet ended.
Running(p) == pc[p] \notin {"Idle", "Done", "Aborted"}

\* The next step of a run under way: the interpreter runs the next
\* statement, and every call it makes returns or raises.
Proceed(p) == Running(p) /\ Run(p)

\* The responses of the fair behaviours: no granule, or two granules, the
\* second with an information link before its data links.
FairResponses ==
    { r \in Responses :
        r.items \in {<<>>,
                     <<Record(<<Link(GetData, UrlA)>>),
                       Record(<<Link("VIEW RELATED INFORMATION", UrlDoc),
                                Link(GetData, UrlB),
                                Link(GetData, UrlC)>>)>>} }

\* The state before the first run, as in Init, with these responses.
InitFair ==
    /\ now = Epoch
    /\ \/ dirExists = FALSE /\ update = NoFile
       \/ dirExists = TRUE
          /\ update \in {NoFile, File(PriorStamp),
                         File(PriorStamp \o <<"\r", "\n">>)}
    /\ files = [n \in FileNames |-> "absent"]
    /\ catalog = FairResponses
    /\ InitRuns(Sequential)

SpecFair ==
    InitFair /\ [][Next]_vars /\ \A p \in Sequential : WF_vars(Proceed(p))

\* The place of a step in the notebook, top to bottom.
Rank(state) ==
    CASE state = "Idle" -> 0
      [] state = "Authenticated" -> 1
      [] state = "ResolvingWatermark" -> 2
      [] state = "BuildingQuery" -> 3
      [] state = "Querying" -> 4
      [] state = "Capturing" -> 5
      [] state = "Selecting" -> 6
      [] state = "Downloading" -> 7
      [] state = "Finalizing" -> 8
      [] state = "Writing" -> 9
      [] state \in {"Done", "Aborted"} -> 10

\* A step that leaves the run where it was and its record as it was (the
\* clock may have moved).
Stays(p) ==
    /\ pc'[p] = pc[p] /\ idx'[p] = idx[p]
    /\ queries'[p] = queries[p] /\ tried'[p] = tried[p]
    /\ update' = update /\ files' = files

\* A step forward: to a later place of the notebook, or to the next entry
\* of the download loop.
Advances(p) ==
    \/ Rank(pc'[p]) > Rank(pc[p])
    \/ /\ pc[p] = "Downloading" /\ pc'[p] = "Downloading"
       /\ idx'[p] = idx[p] + 1
       /\ Len(tried'[p]) = Len(tried[p]) + 1

\* C23: every run terminates in Done or Aborted: a run under way only
\* moves forward (no step returns to an earlier place or repeats one), it
\* sends at most one query, attempts each selected URL at most once, in
\* order, changes .update only in its two last steps, and, given that each
\* call returns or raises, it reaches Done or Aborted.
C23_RunsTerminate ==
    /\ [][\A p \in Sequential : Running(p) => Stays(p) \/ Advances(p)]_vars
    /\ [](\A p \in Sequential :
            /\ Len(queries[p]) <= 1
            /\ queries[p] # <<>> => Rank(pc[p]) >= 5
            /\ Len(tried[p]) <= Len(downloads[p])
            /\ \A i \in 1..Len(tried[p]) : tried[p][i] = downloads[p][i]
            /\ Rank(pc[p]) \in 1..8 => update = pre[p].update)
    /\ \A p \in Sequential :
          Running(p) ~> (pc[p] \in {"Done", "Aborted"})

\* C23 witness: a run that ended Done after one query and one attempt for
\* each of its two selected URLs.
C23_Witness ==
    \E p \in procs :
        /\ pc[p] = "Done"
        /\ Len(queries[p]) = 1
        /\ Len(downloads[p]) = 2 /\ tried[p] = downloads[p]
        /\ update = File(cand[p])

\* C21: .update is written once, as the last file operation of a run: up to
\* the end of the download loop, and in a run ended by its login, query,
\* selection or a download, .update is as it was when the run started; in
\* every state in which the run has changed .update, and so in every state
\* in which .update holds the timestamp the run captured, every selected
\* URL was fetched in this run and its file is complete in the directory.
C21_UpdateWrittenLast ==
    \A p \in procs :
        /\ pc[p] \in {"Authenticated", "ResolvingWatermark", "BuildingQuery",
                      "Querying", "Capturing", "Selecting", "Downloading",
                      "Finalizing"} => update = pre[p].update
        /\ (pc[p] = "Aborted" /\ failed[p] # "Finalizing") =>
              update = pre[p].update
        /\ (pc[p] # "Idle" /\ update # pre[p].update) =>
              /\ Len(downloads[p]) = Len(results[p].items)
              /\ fetched[p] = downloads[p]
              /\ tried[p] = downloads[p]
              /\ \A i \in 1..Len(downloads[p]) :
                    files[downloads[p][i][Len(downloads[p][i])]] = "complete"
        /\ (update # pre[p].update /\ cand[p] # <<>>
            /\ update = File(cand[p])) => pc[p] = "Done"

\* C21 witness: a run that ended Done after two downloads into a directory
\* that had neither file, .update changed to the captured timestamp.
C21_Witness ==
    \E p \in procs :
        /\ pc[p] = "Done" /\ Len(downloads[p]) = 2
        /\ update = File(cand[p]) /\ update # pre[p].update
        /\ \A i \in 1..2 :
              /\ pre[p].files[downloads[p][i][Len(downloads[p][i])]] = "absent"
              /\ files[downloads[p][i][Len(downloads[p][i])]] = "complete"

====
